---- MODULE Spec2Model ----
(***************************************************************************)
(* A model of the directory-backed data container of data_dir:            *)
(* Group / File / DataSet / Raw / Attribute objects, the treelib Tree     *)
(* that a Group owns, and the directory tree on disk that a linked Group  *)
(* mirrors its insertions to.                                              *)
(*                                                                         *)
(* Strings (keys, node identifiers, tags) are sequences of one-character  *)
(* strings, so that rsplit('/') and split(item) are computed as Python    *)
(* computes them.  A filesystem path is a sequence of components, each a  *)
(* string in that sense; <<>> is the filesystem root.                     *)
(***************************************************************************)
EXTENDS Integers, Sequences, FiniteSets, TLC

\* ------------------------------------------------------------------ bounds

\* Objects the heap may hold (File, Group, DataSet, Raw, Attribute instances).
MaxObj == 4

\* Calls (constructors, assignments, lookups) a behaviour may make.
MaxCalls == 4

\* ------------------------------------------------------------ option values

None == <<>>

Some(x) == <<x>>

\* ------------------------------------------------------------------ strings

Slash == "/"

CharRank(c) == CASE c = "." -> 46 [] c = "/" -> 47 [] c = "R" -> 82
                 [] c = "a" -> 97 [] c = "b" -> 98 [] OTHER -> 120

\* s < t for Python strings: code point order, a proper prefix is smaller.
RECURSIVE StrLess(_, _)
StrLess(s, t) ==
    IF t = <<>> THEN FALSE
    ELSE IF s = <<>> THEN TRUE
    ELSE IF CharRank(s[1]) # CharRank(t[1]) THEN CharRank(s[1]) < CharRank(t[1])
    ELSE StrLess(Tail(s), Tail(t))

SetMax(S) == CHOOSE x \in S : \A y \in S : y <= x

SetMin(S) == CHOOSE x \in S : \A y \in S : x <= y

\* str.rsplit('/', maxsplit=1): one part when there is no '/', else two.
RSplit(s) ==
    LET I == {i \in 1..Len(s) : s[i] = Slash}
    IN IF I = {} THEN <<s>>
       ELSE <<SubSeq(s, 1, SetMax(I) - 1), SubSeq(s, SetMax(I) + 1, Len(s))>>

\* Positions at which sep occurs in s (sep non-empty).
Occurrences(s, sep) ==
    {i \in 1..(Len(s) - Len(sep) + 1) : SubSeq(s, i, i + Len(sep) - 1) = sep}

\* s.split(sep, maxsplit=1)[1]: what follows the first occurrence of sep.
\* An empty separator raises ValueError, no occurrence makes [1] an IndexError.
SplitRest(s, sep) ==
    IF sep = <<>> THEN [err |-> "ValueError:empty separator", val |-> <<>>]
    ELSE IF Occurrences(s, sep) = {} THEN [err |-> "IndexError", val |-> <<>>]
    ELSE [err |-> "ok",
          val |-> SubSeq(s, SetMin(Occurrences(s, sep)) + Len(sep), Len(s))]

\* The '/'-separated parts of s, empty parts included.
RECURSIVE Parts(_)
Parts(s) ==
    LET I == {i \in 1..Len(s) : s[i] = Slash}
    IN IF I = {} THEN <<s>>
       ELSE <<SubSeq(s, 1, SetMin(I) - 1)>> \o Parts(SubSeq(s, SetMin(I) + 1, Len(s)))

\* pathlib: base / key.  Empty and '.' parts are dropped; a key that starts
\* with '/' is absolute and replaces the base.
PathJoin(base, key) ==
    LET comps == SelectSeq(Parts(key), LAMBDA c : c # <<>> /\ c # <<".">>)
    IN IF key # <<>> /\ key[1] = Slash THEN comps ELSE base \o comps

PathParent(d) == SubSeq(d, 1, Len(d) - 1)

IsPrefix(a, b) == Len(a) <= Len(b) /\ SubSeq(b, 1, Len(a)) = a

\* Path.__lt__: component-wise, a proper prefix is smaller.
RECURSIVE PathLess(_, _)
PathLess(a, b) ==
    IF b = <<>> THEN FALSE
    ELSE IF a = <<>> THEN TRUE
    ELSE IF a[1] # b[1] THEN StrLess(a[1], b[1])
    ELSE PathLess(Tail(a), Tail(b))

\* sorted(...) of a set of paths.
RECURSIVE SortPaths(_)
SortPaths(S) ==
    IF S = {} THEN <<>>
    ELSE LET m == CHOOSE x \in S : \A y \in S \ {x} : PathLess(x, y)
         IN <<m>> \o SortPaths(S \ {m})

\* '/'.join(parts): str(Path) of a relative path; str(Path('')) is '.'.
RECURSIVE JoinParts(_)
JoinParts(parts) ==
    IF parts = <<>> THEN <<".">>
    ELSE IF Len(parts) = 1 THEN parts[1]
    ELSE parts[1] \o <<Slash>> \o JoinParts(Tail(parts))

\* ------------------------------------------------------- treelib Node, Tree

\* A Tree: its nodes by identifier, its root, and the identifiers in the
\* order they were added.  A node: tag, predecessor in this tree, data (an
\* object of the heap, 0 for None).
EmptyTree == [nodes |-> <<>>, root |-> None, order |-> <<>>]

TreeNode(tag, pred, data) == [tag |-> tag, pred |-> pred, data |-> data]

Contains(tree, id) == id \in DOMAIN tree.nodes

\* Tree.create_node / add_node: a duplicate identifier, a second root and an
\* absent parent are refused, in that order.
CreateNode(tree, tag, id, parent, data) ==
    IF Contains(tree, id)
    THEN [err |-> "DuplicatedNodeIdError", tree |-> tree]
    ELSE IF parent = None /\ tree.root # None
    THEN [err |-> "MultipleRootError", tree |-> tree]
    ELSE IF parent # None /\ ~Contains(tree, parent[1])
    THEN [err |-> "NodeIDAbsentError", tree |-> tree]
    ELSE [err |-> "ok",
          tree |-> [nodes |-> [x \in DOMAIN tree.nodes \cup {id} |->
                                 IF x = id THEN TreeNode(tag, parent, data)
                                 ELSE tree.nodes[x]],
                    root |-> IF parent = None THEN Some(id) ELSE tree.root,
                    order |-> Append(tree.order, id)]]

\* The successors of nid, in the order they were added.
Successors(tree, nid) ==
    SelectSeq(tree.order, LAMBDA x : tree.nodes[x].pred = Some(nid))

\* list.sort() with Node.__lt__ (by tag): a stable insertion.
RECURSIVE InsertByTag(_, _, _)
InsertByTag(tree, sorted, x) ==
    IF sorted = <<>> THEN <<x>>
    ELSE IF StrLess(tree.nodes[x].tag, tree.nodes[sorted[1]].tag)
    THEN <<x>> \o sorted
    ELSE <<sorted[1]>> \o InsertByTag(tree, Tail(sorted), x)

RECURSIVE SortByTag(_, _)
SortByTag(tree, ids) ==
    IF ids = <<>> THEN <<>>
    ELSE InsertByTag(tree, SortByTag(tree, SubSeq(ids, 1, Len(ids) - 1)), ids[Len(ids)])

\* Tree.expand_tree(nid), depth first, siblings sorted by tag: the order in
\* which Tree.subtree(nid) collects its nodes and all_nodes_itr yields them.
RECURSIVE ExpandTree(_, _)
RECURSIVE ExpandEach(_, _)
ExpandTree(tree, nid) ==
    <<nid>> \o ExpandEach(tree, SortByTag(tree, Successors(tree, nid)))

ExpandEach(tree, ids) ==
    IF ids = <<>> THEN <<>>
    ELSE ExpandTree(tree, ids[1]) \o ExpandEach(tree, Tail(ids))

\* Node.predecessor(stree.identifier) in stree = tree.subtree(item): the
\* node's predecessor, None for the subtree's root.
SubtreePredecessor(tree, item, id) ==
    IF id = item THEN None ELSE tree.nodes[id].pred

\* ------------------------------------------------------------------ objects

FILE == "file"

GROUP == "group"

DATASET == "dataset"

RAW == "raw"

ATTRIBUTE == "attribute"

\* A payload with zero rows: pd.DataFrame(), for which df.empty holds.
EmptyDf == "empty"

Tables == {EmptyDf, "t1", "t2"}

NoAttrs == [k \in {} |-> 0]

\* An attribute map with the one key 'b'.
AttrsB == [k \in {<<"b">>} |-> 1]

AttrMaps == {NoAttrs, AttrsB}

\* The df of an object that is no DataSet, the mode of one that is no File.
NoDf == "nodf"

NoMode == "nomode"

\* shared says that the object's df is the one frame that is the default of
\* DataSet.__init__'s parameter df.
NewObject(kind, df, path, mode) ==
    [kind |-> kind, attrs |-> NoAttrs, df |-> df, path |-> path, mode |-> mode,
     tree |-> EmptyTree, shared |-> FALSE]

\* Line 215: the default of df is one frame, made when the class is defined:
\* what it holds is what the DataSets that share it hold, and it is empty
\* while none does (a DataSet lets go of it only at line 98, when it is empty).
DefaultFrame(heap) ==
    IF \E o \in 1..Len(heap) : heap[o].shared
    THEN heap[CHOOSE o \in 1..Len(heap) : heap[o].shared].df
    ELSE EmptyDf

\* DataSet(): the new object's df is the default frame itself.
DefaultDataSet(heap) ==
    [NewObject(DATASET, DefaultFrame(heap), None, NoMode) EXCEPT !.shared = TRUE]

\* isinstance(x, Group): a File is a Group.
IsGroup(o) == o.kind \in {FILE, GROUP}

IsDataSet(o) == o.kind = DATASET

\* isinstance(x, ElementWithAttributes)
IsElementWithAttributes(o) == o.kind \in {FILE, GROUP, DATASET}

\* -------------------------------------------------------------------- disk

NoFile == "absent"

\* A directory: the type in its ddir.json, the map in its attributes.json
\* (None when the file is missing), the table in its data.parq.
Dir(desc, attrs, data) == [desc |-> desc, attrs |-> attrs, data |-> data]

RootPath == << <<"R">> >>

FsRoot == <<>>

Exists(disk, d) == d \in DOMAIN disk

WriteDir(disk, d, rec) ==
    [x \in DOMAIN disk \cup {d} |-> IF x = d THEN rec ELSE disk[x]]

\* Only the filesystem root exists.
BlankDisk == [x \in {FsRoot} |-> Dir(NoFile, None, NoFile)]

\* A data dir at RootPath as the repository's example_ddir has it: a group
\* 'a' with an attribute, and in it a dataset 'a/b' with a payload.
ExampleDisk ==
    [x \in {FsRoot, RootPath, RootPath \o << <<"a">> >>,
            RootPath \o << <<"a">>, <<"b">> >>} |->
        IF x = FsRoot THEN Dir(NoFile, None, NoFile)
        ELSE IF x = RootPath THEN Dir(FILE, Some(NoAttrs), NoFile)
        ELSE IF Len(x) = 2 THEN Dir(GROUP, Some(AttrsB), NoFile)
        ELSE Dir(DATASET, Some(NoAttrs), "t1")]

\* ------------------------------------------------------- results of a call

\* What a call returns: nothing, an object of the heap, or an attribute value.
NoRet == [kind |-> "none", obj |-> 0, val |-> 0]

ObjRet(o) == [kind |-> "obj", obj |-> o, val |-> 0]

AttrRet(v) == [kind |-> "attr", obj |-> 0, val |-> v]

\* The outcome of a call: "ok" or the exception raised, the heap and the disk
\* it leaves, the disk operations it attempted in order, and its return value.
Result(err, heap, disk, log, ret) ==
    [err |-> err, heap |-> heap, disk |-> disk, log |-> log, ret |-> ret]

\* A value that is none of Group, DataSet, Raw, Attribute (an int, say).
Unsupported == 0

\* ------------------------------------------------------ Group.__setitem__

\* The (item_0, key_1) of key: the parent identifier, the tree's root (which
\* is None in an empty tree) when key has no '/', and the leaf name.
ResolveParent(tree, key) ==
    IF Len(RSplit(key)) = 1 THEN tree.root ELSE Some(RSplit(key)[1])

ResolveLeaf(key) ==
    IF Len(RSplit(key)) = 1 THEN RSplit(key)[1] ELSE RSplit(key)[2]

\* DataFrame.to_parquet(dir / DATA_FILE): the file's directory must exist.
ToParquet(disk, d, df) ==
    IF Exists(disk, d)
    THEN [err |-> "ok", disk |-> [disk EXCEPT ![d].data = df]]
    ELSE [err |-> "OSError:no such directory", disk |-> disk]

\* Path.mkdir(): the directory must not exist, its parent must.
Mkdir(disk, d) ==
    IF Exists(disk, d) THEN [err |-> "FileExistsError", disk |-> disk]
    ELSE IF ~Exists(disk, PathParent(d))
    THEN [err |-> "FileNotFoundError", disk |-> disk]
    ELSE [err |-> "ok", disk |-> WriteDir(disk, d, Dir(NoFile, None, NoFile))]

\* _write_ddir_json, then json.dump of the attribute map.
WriteDescriptor(disk, d, ddType) == [disk EXCEPT ![d].desc = ddType]

WriteAttributes(disk, d, attrs) == [disk EXCEPT ![d].attrs = Some(attrs)]

\* Lines 144-148: the mirrored directory, its descriptor and its attributes,
\* for an element with attributes under a linked container.
PersistElement(heap, disk, c, key, v, log) ==
    IF v # Unsupported /\ IsElementWithAttributes(heap[v]) /\ heap[c].path # None
    THEN LET d == PathJoin(heap[c].path[1], key)
             mk == Mkdir(disk, d)
         IN IF mk.err # "ok"
            THEN Result(mk.err, heap, disk, Append(log, "mkdir"), NoRet)
            ELSE Result("ok", heap,
                        WriteAttributes(WriteDescriptor(mk.disk, d, heap[v].kind),
                                        d, heap[v].attrs),
                        log \o <<"mkdir", "ddir.json", "attributes.json">>, NoRet)
    ELSE Result("ok", heap, disk, log, NoRet)

\* The loop of lines 121-127 over the nodes of the inserted Group: its first
\* statement reads node.parent, which a treelib Node does not have.
AbsorbLoop(vtree) ==
    IF vtree.order = <<>> THEN "ok" ELSE "AttributeError"

\* Lines 117-142: the dispatch on the type of the value.  For a Group whose
\* tree is empty new_tree stays empty, and Tree.paste of an empty tree does
\* nothing.  The Raw and Attribute branches are `pass`: no node is created.
InsertElement(heap, disk, c, key, v) ==
    LET self == heap[c]
        item_0 == ResolveParent(self.tree, key)
        key_1 == ResolveLeaf(key)
        cn == CreateNode(self.tree, key_1, key, item_0, v)
        created == [heap EXCEPT ![c].tree = cn.tree]
    IN IF v = Unsupported
       THEN Result("ValueError:not a valid type", heap, disk, <<>>, NoRet)
       ELSE IF IsGroup(heap[v])
       THEN IF AbsorbLoop(heap[v].tree) # "ok"
            THEN Result(AbsorbLoop(heap[v].tree), heap, disk, <<>>, NoRet)
            ELSE IF cn.err # "ok" THEN Result(cn.err, heap, disk, <<>>, NoRet)
            ELSE Result("ok", created, disk, <<>>, NoRet)
       ELSE IF IsDataSet(heap[v])
       THEN IF cn.err # "ok" THEN Result(cn.err, heap, disk, <<>>, NoRet)
            ELSE IF self.path = None THEN Result("ok", created, disk, <<>>, NoRet)
            ELSE LET tp == ToParquet(disk, PathJoin(self.path[1], key), heap[v].df)
                 IN Result(tp.err, created, tp.disk, <<"to_parquet">>, NoRet)
       ELSE Result("ok", heap, disk, <<>>, NoRet)

\* An assignment that does not look for the key in the tree.
KeyTaken_Never(tree, key) == FALSE

\* "already exists": the value of `key in self.tree` at line 104.
KeyTaken(tree, key) == Contains(tree, key)

\* Group.__setitem__(self = c, key, value = v)
GroupSetItem(heap, disk, c, key, v) ==
    LET self == heap[c]
        item_0 == ResolveParent(self.tree, key)
    IN IF KeyTaken(self.tree, key)
       THEN Result("KeyError:already exists", heap, disk, <<>>, NoRet)
       ELSE IF item_0 # None /\ ~Contains(self.tree, item_0[1])
       THEN Result("KeyError:parent does not exist", heap, disk, <<>>, NoRet)
       ELSE LET ins == InsertElement(heap, disk, c, key, v)
            IN IF ins.err # "ok" THEN ins
               ELSE PersistElement(ins.heap, ins.disk, c, key, v, ins.log)

\* A gate that lets every mode through.
ModeAllowsSet_Any(mode) == mode \in {"a", "w", "r"}

\* Line 207: the modes in which a File accepts an assignment.
ModeAllowsSet(mode) == mode \in {"a", "w"}

\* File.__setitem__
FileSetItem(heap, disk, c, key, v) ==
    IF ~ModeAllowsSet(heap[c].mode)
    THEN Result("ValueError:read only", heap, disk, <<>>, NoRet)
    ELSE GroupSetItem(heap, disk, c, key, v)

\* container[key] = value, dispatched on the class of the container.
SetItemCall(heap, disk, c, key, v) ==
    IF heap[c].kind = FILE THEN FileSetItem(heap, disk, c, key, v)
    ELSE GroupSetItem(heap, disk, c, key, v)

\* ------------------------------------------------------ Group.__getitem__

\* Lines 87-92: one node per node of the subtree at item, created in the
\* tree of the Group that is read out, its identifier and its parent being
\* what follows the first occurrence of item.  The first error ends the loop
\* and leaves the nodes created so far.
RECURSIVE Rebuild(_, _, _, _)
Rebuild(src, item, ids, target) ==
    IF ids = <<>> THEN [err |-> "ok", tree |-> target]
    ELSE LET n == ids[1]
             pred == SubtreePredecessor(src, item, n)
             par == IF pred = None THEN [err |-> "ok", val |-> <<>>]
                    ELSE SplitRest(pred[1], item)
             nid == SplitRest(n, item)
             cn == CreateNode(target, src.nodes[n].tag, nid.val,
                              IF pred = None THEN None ELSE Some(par.val),
                              src.nodes[n].data)
         IN IF par.err # "ok" THEN [err |-> par.err, tree |-> target]
            ELSE IF nid.err # "ok" THEN [err |-> nid.err, tree |-> target]
            ELSE IF cn.err # "ok" THEN [err |-> cn.err, tree |-> target]
            ELSE Rebuild(src, item, Tail(ids), cn.tree)

\* A lookup that reads the payload whatever the DataSet holds.
NeedsLoad_Always(df) == TRUE

\* Line 95: node.data.df.empty, the sign that the payload is to be read.
NeedsLoad(df) == df = EmptyDf

\* pd.read_parquet(dir / DATA_FILE)
ReadParquet(disk, d) ==
    IF Exists(disk, d) /\ disk[d].data # NoFile
    THEN [err |-> "ok", df |-> disk[d].data]
    ELSE [err |-> "FileNotFoundError", df |-> EmptyDf]

\* Lines 68-80: item is no node; an attribute of the parent node, or KeyError.
AttributeFallback(heap, disk, c, item) ==
    LET tree == heap[c].tree
        item_0 == ResolveParent(tree, item)
        key == ResolveLeaf(item)
        d == IF item_0 # None /\ Contains(tree, item_0[1])
             THEN tree.nodes[item_0[1]].data ELSE 0
    IN IF d # 0 /\ IsElementWithAttributes(heap[d]) /\ key \in DOMAIN heap[d].attrs
       THEN Result("ok", heap, disk, <<>>, AttrRet(heap[d].attrs[key]))
       ELSE Result("KeyError:not a valid key", heap, disk, <<>>, NoRet)

\* Lines 84-92: the Group at item is read out.
FlattenOut(heap, disk, c, item) ==
    LET tree == heap[c].tree
        d == tree.nodes[item].data
        rb == Rebuild(tree, item, ExpandTree(tree, item), heap[d].tree)
    IN Result(rb.err, [heap EXCEPT ![d].tree = rb.tree], disk, <<>>,
              IF rb.err = "ok" THEN ObjRet(d) ELSE NoRet)

\* A lookup that hands out an empty DataSet of an unlinked Group as it is.
LazyLoad_NoLinkTest(heap, disk, c, item) ==
    IF heap[c].path = None \/ ~NeedsLoad(heap[heap[c].tree.nodes[item].data].df)
    THEN Result("ok", heap, disk, <<>>, ObjRet(heap[c].tree.nodes[item].data))
    ELSE Result("ok", [heap EXCEPT ![heap[c].tree.nodes[item].data].df =
                          ReadParquet(disk, PathJoin(heap[c].path[1], item)).df,
                                   ![heap[c].tree.nodes[item].data].shared = FALSE],
                disk, <<"read_parquet">>, ObjRet(heap[c].tree.nodes[item].data))

\* Lines 94-98: the DataSet at item, its payload read when it is empty.
LazyLoad(heap, disk, c, item) ==
    LET d == heap[c].tree.nodes[item].data
        rp == ReadParquet(disk, PathJoin(heap[c].path[1], item))
    IN IF ~NeedsLoad(heap[d].df) THEN Result("ok", heap, disk, <<>>, ObjRet(d))
       ELSE IF heap[c].path = None
       THEN Result("GroupError:not linked", heap, disk, <<>>, NoRet)
       ELSE IF rp.err # "ok"
       THEN Result(rp.err, heap, disk, <<"read_parquet">>, NoRet)
       ELSE Result("ok", [heap EXCEPT ![d].df = rp.df, ![d].shared = FALSE], disk,
                   <<"read_parquet">>,
                   ObjRet(d))

\* A lookup that tries the attribute of the parent node before the node.
GroupGetItem_AttrFirst(heap, disk, c, item) ==
    IF AttributeFallback(heap, disk, c, item).err = "ok"
    THEN AttributeFallback(heap, disk, c, item)
    ELSE IF ~Contains(heap[c].tree, item) THEN AttributeFallback(heap, disk, c, item)
    ELSE LazyLoad(heap, disk, c, item)

\* Group.__getitem__(self = c, item)
GroupGetItem(heap, disk, c, item) ==
    LET tree == heap[c].tree
        d == tree.nodes[item].data
    IN IF ~Contains(tree, item) THEN AttributeFallback(heap, disk, c, item)
       ELSE IF d # 0 /\ IsGroup(heap[d]) THEN FlattenOut(heap, disk, c, item)
       ELSE IF d # 0 /\ IsDataSet(heap[d]) THEN LazyLoad(heap, disk, c, item)
       ELSE Result("ok", heap, disk, <<>>, IF d = 0 THEN NoRet ELSE ObjRet(d))

\* ------------------------------------------------------------ File.__init__

\* A create mode that does not look at the root path.
CreateRefused_Never(disk, path) == FALSE

\* Line 198: create mode refuses a root path that exists.
CreateRefused(disk, path) == Exists(disk, path)

\* The directories that self.path.glob('**/ddir.json') finds a descriptor in.
GlobDescriptors(disk, path) ==
    {d \in DOMAIN disk : IsPrefix(path, d) /\ disk[d].desc # NoFile}

\* Line 172: the sorted directories relative to the module's global p.
RelativeTo(d, base) == SubSeq(d, Len(base) + 1, Len(d))

\* Path.name: the last component, '' for Path('').
PathName(item) == IF item = <<>> THEN <<>> ELSE item[Len(item)]

\* Lines 177-181: the parent identifier carried from one item to the next.
ScanParent(item, parent) ==
    IF Some(JoinParts(PathParent(item))) # parent
    THEN IF item = <<>> THEN None ELSE Some(JoinParts(PathParent(item)))
    ELSE parent

\* Lines 183-192: the element made for a descriptor type; the heap grows by
\* one object unless the type is 'file' (the File itself) or unknown (None).
ScanElement(heap, f, dtype) ==
    IF dtype = FILE THEN [heap |-> heap, data |-> f]
    ELSE IF dtype = GROUP
    THEN [heap |-> Append(heap, NewObject(GROUP, NoDf, heap[f].path, NoMode)),
          data |-> Len(heap) + 1]
    ELSE IF dtype = DATASET
    THEN [heap |-> Append(heap, DefaultDataSet(heap)),
          data |-> Len(heap) + 1]
    ELSE IF dtype = RAW
    THEN [heap |-> Append(heap, NewObject(RAW, NoDf, None, NoMode)),
          data |-> Len(heap) + 1]
    ELSE [heap |-> heap, data |-> 0]

\* Lines 193-194: the attribute map of an element that has one is read
\* from the directory's attributes.json.
AttrsMissing(el, attrs) ==
    el.data # 0 /\ IsElementWithAttributes(el.heap[el.data]) /\ attrs = None

LoadAttrs(el, attrs) ==
    IF el.data # 0 /\ IsElementWithAttributes(el.heap[el.data])
    THEN [el.heap EXCEPT ![el.data].attrs = attrs[1]]
    ELSE el.heap

\* Line 195: the node is created in the File's tree.
ScanCreate(h, f, cn) ==
    [err |-> cn.err, heap |-> IF cn.err = "ok" THEN [h EXCEPT ![f].tree = cn.tree] ELSE h]

\* Lines 182-195: the element el made for item, and its node.
ScanItem(el, attrs, f, item, par) ==
    IF AttrsMissing(el, attrs) THEN [err |-> "FileNotFoundError", heap |-> el.heap]
    ELSE ScanCreate(LoadAttrs(el, attrs), f,
                    CreateNode(LoadAttrs(el, attrs)[f].tree, PathName(item),
                               JoinParts(item), par, el.data))

\* Lines 176-195: one node per sorted item; an error ends the loop.
RECURSIVE ScanLoop(_, _, _, _, _)
RECURSIVE ScanNext(_, _, _, _, _)
ScanLoop(heap, disk, f, ls, parent) ==
    IF ls = <<>> THEN [err |-> "ok", heap |-> heap]
    ELSE ScanNext(ScanItem(ScanElement(heap, f, disk[heap[f].path[1] \o ls[1]].desc),
                           disk[heap[f].path[1] \o ls[1]].attrs, f, ls[1],
                           ScanParent(ls[1], parent)),
                  disk, f, ls, parent)

ScanNext(r, disk, f, ls, parent) ==
    IF r.err # "ok" THEN r
    ELSE ScanLoop(r.heap, disk, f, Tail(ls), ScanParent(ls[1], parent))

\* Lines 163-195: read and append mode.  p is the module's global of that
\* name, which line 172 reads: None while nothing has assigned it.
ScanResult(scan, disk, f) == Result(scan.err, scan.heap, disk, <<>>, ObjRet(f))

ScanSorted(disk, path, p) ==
    SortPaths({RelativeTo(d, p[1]) : d \in GlobDescriptors(disk, path)})

OpenExisting(heap, disk, f, p) ==
    IF ~Exists(disk, heap[f].path[1]) \/ disk[heap[f].path[1]].desc = NoFile
    THEN Result("ValueError:not a DataDir", heap, disk, <<>>, NoRet)
    ELSE IF disk[heap[f].path[1]].desc # FILE
    THEN Result("ValueError:not the root", heap, disk, <<>>, NoRet)
    ELSE IF p = None THEN Result("NameError", heap, disk, <<>>, NoRet)
    ELSE IF \E d \in GlobDescriptors(disk, heap[f].path[1]) : ~IsPrefix(p[1], d)
    THEN Result("ValueError:not in the subpath", heap, disk, <<>>, NoRet)
    ELSE IF disk[heap[f].path[1]].attrs = None
    THEN Result("FileNotFoundError", heap, disk, <<>>, NoRet)
    ELSE ScanResult(ScanLoop([heap EXCEPT ![f].attrs = disk[heap[f].path[1]].attrs[1]],
                             disk, f, ScanSorted(disk, heap[f].path[1], p), None),
                    disk, f)

\* Line 202, self['.'] = self: the File is its own top node.
SelfRegistered(r, f) == Result(r.err, r.heap, r.disk, r.log, ObjRet(f))

\* Lines 197-202: create mode.
OpenCreate(heap, disk, f) ==
    IF CreateRefused(disk, heap[f].path[1])
    THEN Result("ValueError:already exists", heap, disk, <<>>, NoRet)
    ELSE SelfRegistered(FileSetItem(heap, disk, f, <<".">>, f), f)

\* Any other mode: neither branch of lines 163-202 is taken, the File is
\* constructed with an empty tree and the disk is not looked at.
OpenOther(heap, disk, f) == Result("ok", heap, disk, <<>>, ObjRet(f))

\* A constructor that raises returns no object: the heap is left as it was.
Constructed(heap, r) ==
    IF r.err = "ok" THEN r ELSE Result(r.err, heap, r.disk, r.log, NoRet)

\* File(path, mode): the new object is the next of the heap.
FileInit(heap, disk, p, path, mode) ==
    Constructed(heap,
                IF mode \in {"a", "r"}
                THEN OpenExisting(Append(heap, NewObject(FILE, NoDf, Some(path), mode)),
                                  disk, Len(heap) + 1, p)
                ELSE IF mode = "w"
                THEN OpenCreate(Append(heap, NewObject(FILE, NoDf, Some(path), mode)),
                                disk, Len(heap) + 1)
                ELSE OpenOther(Append(heap, NewObject(FILE, NoDf, Some(path), mode)),
                               disk, Len(heap) + 1))

\* ------------------------------------------------------------------- state

VARIABLES
    heap,     \* the objects constructed so far, by identity 1..Len(heap)
    disk,     \* the directories that exist, by path
    p,        \* the module's global p: None in the imported module, the root
              \* path once the module's script part (line 249) has assigned it
    held,     \* the objects the caller holds a reference to
    calls,    \* the number of calls made
    last,     \* the latest call: what was asked, and its outcome
    loaded,   \* the DataSets whose payload was read from disk at least once
    wroot     \* the File made in create mode, while nothing but successful
              \* assignments to it has happened since (0 otherwise)

vars == <<heap, disk, p, held, calls, last, loaded, wroot>>

NoObject == NewObject("none", NoDf, None, NoMode)

\* A record of a call.  elem is the object at the node a lookup addressed,
\* fresh says that the key of an assignment was absent and its parent
\* resolvable when the call began, snap is the value as it was then.
Call(op, target, key, value, mode, r, elem, fresh, snap) ==
    [op |-> op, target |-> target, key |-> key, value |-> value, mode |-> mode,
     err |-> r.err, ret |-> r.ret, log |-> r.log, elem |-> elem, fresh |-> fresh,
     snap |-> snap]

Plain(heapv, diskv) == Result("ok", heapv, diskv, <<>>, NoRet)

\* The keys a caller assigns to and looks up.
SetKeys == {<<"a">>, <<"b">>, <<"a", "/", "b">>}

GetKeys == SetKeys \cup {<<>>, <<"/", "b">>}

\* The modes a caller passes: the three the code knows, and one it does not.
Modes == {"r", "a", "w", "x"}

Groups == {o \in held : IsGroup(heap[o])}

Init ==
    /\ heap = <<>>
    /\ disk \in {BlankDisk, ExampleDisk}
    /\ p \in {None, Some(RootPath)}
    /\ held = {}
    /\ calls = 0
    /\ last = Call("start", 0, <<>>, 0, NoMode, Plain(<<>>, <<>>), 0, FALSE, NoObject)
    /\ loaded = {}
    /\ wroot = 0

\* Whether another call fits the bound.
CanCall == calls < MaxCalls

Record(rec) ==
    /\ CanCall
    /\ calls' = calls + 1
    /\ last' = rec

Allocate(obj, rec) ==
    /\ CanCall
    /\ Len(heap) < MaxObj
    /\ heap' = Append(heap, obj)
    /\ held' = held \cup {Len(heap) + 1}
    /\ Record(rec)
    /\ UNCHANGED <<disk, p, loaded, wroot>>

NewRec(kind) ==
    Call("new", 0, <<>>, 0, NoMode, Result("ok", heap, disk, <<>>, ObjRet(Len(heap) + 1)),
         0, FALSE, NoObject)

\* Group()
NewGroup == Allocate(NewObject(GROUP, NoDf, None, NoMode), NewRec(GROUP))

\* DataSet(), whose df is the default frame, or DataSet(df) with a frame of
\* the caller's that no other object holds.
NewDataSet ==
    \E d \in {DefaultDataSet(heap), NewObject(DATASET, "t1", None, NoMode)} :
        Allocate(d, NewRec(DATASET))

\* Raw()
NewRaw == Allocate(NewObject(RAW, NoDf, None, NoMode), NewRec(RAW))

\* Attribute()
NewAttribute == Allocate(NewObject(ATTRIBUTE, NoDf, None, NoMode), NewRec(ATTRIBUTE))

\* Whether object o is the data of a node of the tree of object f.
InTree(f, o) == \E id \in DOMAIN heap[f].tree.nodes : heap[f].tree.nodes[id].data = o

\* Group.link(path)
Link ==
    /\ CanCall
    /\ \E g \in Groups :
        /\ heap' = [heap EXCEPT ![g].path = Some(RootPath)]
        /\ Record(Call("link", g, <<>>, 0, NoMode, Plain(heap, disk), 0, FALSE, NoObject))
        /\ wroot' = 0
        /\ UNCHANGED <<disk, p, held, loaded>>

\* ElementWithAttributes.set_attrs(attrs) with a Dict
SetAttrs ==
    /\ CanCall
    /\ \E o \in held, m \in AttrMaps :
        /\ IsElementWithAttributes(heap[o])
        /\ heap[o].attrs # m
        /\ heap' = [heap EXCEPT ![o].attrs = m]
        /\ Record(Call("attrs", o, <<>>, 0, NoMode, Plain(heap, disk), 0, FALSE, NoObject))
        /\ wroot' = IF wroot # 0 /\ o # wroot /\ ~InTree(wroot, o) THEN wroot ELSE 0
        /\ UNCHANGED <<disk, p, held, loaded>>

\* The frame f of object o changed in place to table t: every object that
\* holds the same frame holds t.
InPlace(h, o, t) ==
    [i \in 1..Len(h) |->
        IF i = o \/ (h[o].shared /\ h[i].shared) THEN [h[i] EXCEPT !.df = t] ELSE h[i]]

\* The caller changes the payload of a DataSet it holds in place.
MutateDf ==
    /\ CanCall
    /\ \E o \in held, t \in {EmptyDf, "t2"} :
        /\ IsDataSet(heap[o])
        /\ heap[o].df # t
        /\ heap' = InPlace(heap, o, t)
        /\ Record(Call("mutate", o, <<>>, 0, NoMode, Plain(heap, disk), 0, FALSE, NoObject))
        /\ wroot' = 0
        /\ UNCHANGED <<disk, p, held, loaded>>

\* File(RootPath, mode)
Open ==
    /\ CanCall
    /\ \E mode \in Modes :
        \E r \in {FileInit(heap, disk, p, RootPath, mode)} :
           /\ Len(r.heap) <= MaxObj
           /\ heap' = r.heap
           /\ disk' = r.disk
           /\ held' = IF r.err = "ok" THEN held \cup {r.ret.obj} ELSE held
           /\ Record(Call("open", 0, <<>>, 0, mode, r, 0, FALSE, NoObject))
           /\ wroot' = IF r.err = "ok" /\ mode = "w" THEN r.ret.obj
                       ELSE IF mode = "a" THEN wroot ELSE 0
           /\ UNCHANGED <<p, loaded>>

\* container[key] = value
SetItem ==
    /\ CanCall
    /\ \E c \in Groups, key \in SetKeys, v \in held \cup {Unsupported} :
        LET r == SetItemCall(heap, disk, c, key, v)
            par == ResolveParent(heap[c].tree, key)
            fresh == /\ ~Contains(heap[c].tree, key)
                     /\ (par = None \/ Contains(heap[c].tree, par[1]))
        IN /\ heap' = r.heap
           /\ disk' = r.disk
           /\ Record(Call("set", c, key, v, heap[c].mode, r, 0, fresh,
                          IF v = Unsupported THEN NoObject ELSE heap[v]))
           /\ wroot' = IF wroot # 0 /\ c = wroot /\ r.err = "ok" THEN wroot ELSE 0
           /\ UNCHANGED <<p, held, loaded>>

\* container[item]
GetItem ==
    /\ CanCall
    /\ \E c \in Groups, item \in GetKeys :
        LET r == GroupGetItem(heap, disk, c, item)
            elem == IF Contains(heap[c].tree, item)
                    THEN heap[c].tree.nodes[item].data ELSE 0
        IN /\ heap' = r.heap
           /\ disk' = r.disk
           /\ held' = IF r.ret.kind = "obj" THEN held \cup {r.ret.obj} ELSE held
           /\ loaded' = IF r.err = "ok" /\ r.log # <<>> THEN loaded \cup {elem}
                        ELSE loaded
           /\ Record(Call("get", c, item, 0, heap[c].mode, r, elem, FALSE, NoObject))
           /\ wroot' = 0
           /\ UNCHANGED <<p>>

Next ==
    \/ NewGroup
    \/ NewDataSet
    \/ NewRaw
    \/ NewAttribute
    \/ Link
    \/ SetAttrs
    \/ MutateDf
    \/ Open
    \/ SetItem
    \/ GetItem

Spec == Init /\ [][Next]_vars

\* ------------------------------------------------------------------ claims

Range(seq) == {seq[i] : i \in 1..Len(seq)}

\* The tags of the nodes of a tree other than its root.
DescendantTags(tree) ==
    {tree.nodes[id].tag : id \in {x \in DOMAIN tree.nodes : tree.root # Some(x)}}

\* Same variant, same attribute map, same payload, same descendant tags.
SameContent(a, b) ==
    /\ a.kind = b.kind
    /\ a.attrs = b.attrs
    /\ a.df = b.df
    /\ DescendantTags(a.tree) = DescendantTags(b.tree)

\* The latest two calls are an assignment and then a lookup of the same key
\* of the same container.
SetThenGet ==
    /\ last.op = "set"
    /\ last'.op = "get"
    /\ last'.target = last.target
    /\ last'.key = last.key

\* C1: after a set_item(K, v) that returned, with K absent and its parent
\* present, for v a Container, DataSet, Raw or Attribute (other than the
\* container itself), get_item(K) on the same container succeeds and returns
\* an element with the content of v.
C1_SetThenGetReturnsValue ==
    [][(SetThenGet /\ last.fresh /\ last.value # Unsupported
        /\ last.value # last.target /\ last.err = "ok")
        => /\ last'.err = "ok"
           /\ last'.ret.kind = "obj"
           /\ SameContent(last.snap, heap'[last'.ret.obj])]_vars

\* The latest call is an assignment to a File opened in read mode.
SetOnReadRoot(call, h) ==
    /\ call.op = "set"
    /\ h[call.target].kind = FILE
    /\ h[call.target].mode = "r"

\* C2: every set_item on a root opened in read mode fails with the read-only
\* error and leaves every Node Store and the disk as they were.
C2_ReadOnlyRejects ==
    [][SetOnReadRoot(last', heap)
        => /\ last'.err = "ValueError:read only"
           /\ heap' = heap
           /\ disk' = disk]_vars

\* A supported value was assigned to an absent key with a present parent of
\* a read-mode root, and was refused.
C2_Witness ==
    /\ SetOnReadRoot(last, heap)
    /\ last.fresh
    /\ last.value # Unsupported
    /\ last.err = "ValueError:read only"

\* Same identifiers, and for each the same tag, parent, element variant and
\* attribute map.
SameStore(h, t1, t2) ==
    /\ DOMAIN t1.nodes = DOMAIN t2.nodes
    /\ \A id \in DOMAIN t1.nodes :
        /\ t1.nodes[id].tag = t2.nodes[id].tag
        /\ t1.nodes[id].pred = t2.nodes[id].pred
        /\ h[t1.nodes[id].data].kind = h[t2.nodes[id].data].kind
        /\ h[t1.nodes[id].data].attrs = h[t2.nodes[id].data].attrs

\* C3: a root made in create mode and populated by successful set_item calls
\* only, opened again in append mode, yields an isomorphic Node Store.
C3_ReopenIsomorphic ==
    (last.op = "open" /\ last.mode = "a" /\ wroot # 0)
        => /\ last.err = "ok"
           /\ SameStore(heap, heap[wroot].tree, heap[last.ret.obj].tree)

\* The latest call assigned a DataSet to an absent key, with a present
\* parent, of a container linked to a path.
SetDataSetLinked ==
    /\ last.op = "set"
    /\ last.fresh
    /\ last.value # Unsupported
    /\ last.snap.kind = DATASET
    /\ heap[last.target].path # None

\* C4: set_item(K, DataSet(table)) on a root opened in create or append mode,
\* K absent with a present parent, succeeds and leaves the payload in the
\* mirrored subdirectory of K (from where a later open and lookup load it).
C4_DataSetPersisted ==
    (SetDataSetLinked /\ heap[last.target].kind = FILE /\ last.mode \in {"a", "w"})
        => /\ last.err = "ok"
           /\ Exists(disk, PathJoin(RootPath, last.key))
           /\ disk[PathJoin(RootPath, last.key)].data = last.snap.df

\* C5 as claimed: once a DataSet's payload was read from disk, no later
\* get_item of that node reads it again or replaces the in-memory payload.
C5_ReadAtMostOnce ==
    [][(last'.op = "get" /\ last'.elem \in loaded)
        => /\ "read_parquet" \notin Range(last'.log)
           /\ heap'[last'.elem].df = heap[last'.elem].df]_vars

\* The lookup addresses a DataSet whose in-memory payload has rows.
GetOfNonEmpty(call, h) ==
    /\ call.op = "get"
    /\ call.elem # 0
    /\ IsDataSet(h[call.elem])
    /\ h[call.elem].df # EmptyDf

\* C5 as amended: a get_item of a DataSet whose in-memory payload is not
\* empty succeeds, reads nothing from disk and leaves the payload as it is.
C5_NonEmptyNotReread ==
    [][GetOfNonEmpty(last', heap)
        => /\ last'.err = "ok"
           /\ last'.log = <<>>
           /\ heap'[last'.elem].df = heap[last'.elem].df]_vars

\* A DataSet loaded by an earlier lookup was looked up again without a read.
C5_Witness ==
    /\ last.op = "get"
    /\ last.elem \in loaded
    /\ last.err = "ok"
    /\ last.log = <<>>
    /\ heap[last.elem].df # EmptyDf

\* C6: a second get_item(K) of a Container that a first get_item(K) returned
\* succeeds and leaves the Container's Node Store as the first read left it.
C6_RepeatedReadStable ==
    [][(/\ last.op = "get"
        /\ last.err = "ok"
        /\ last.ret.kind = "obj"
        /\ IsGroup(heap[last.ret.obj])
        /\ last'.op = "get"
        /\ last'.target = last.target
        /\ last'.key = last.key)
        => /\ last'.err = "ok"
           /\ heap'[last.ret.obj].tree = heap[last.ret.obj].tree]_vars

\* The identifier that the node n of the subtree at P is to have in the
\* store read out: P + '/' + x becomes x, P itself the root.
Stripped(P, n, root) == IF n = P THEN root ELSE SubSeq(n, Len(P) + 2, Len(n))

\* C7: the store of a Container returned by get_item(P) has one node per
\* node of the subtree at P, the descendant P + '/' + x under identifier x
\* with its tag, element and stripped parent, the node of P being the root.
C7_FlattenStripsPrefix ==
    (last.op = "get" /\ last.err = "ok" /\ last.ret.kind = "obj"
        /\ IsGroup(heap[last.ret.obj]) /\ last.ret.obj # last.target)
        => LET src == heap[last.target].tree
               out == heap[last.ret.obj].tree
               sub == Range(ExpandTree(src, last.key))
           IN /\ out.root # None
              /\ Cardinality(DOMAIN out.nodes) = Cardinality(sub)
              /\ \A n \in sub :
                    LET x == Stripped(last.key, n, out.root[1])
                    IN /\ x \in DOMAIN out.nodes
                       /\ out.nodes[x].tag = src.nodes[n].tag
                       /\ out.nodes[x].data = src.nodes[n].data
                       /\ (n = last.key => out.nodes[x].pred = None)
                       /\ (n # last.key =>
                             out.nodes[x].pred =
                               Some(Stripped(last.key, src.nodes[n].pred[1], out.root[1])))

\* Every node of tree a has a node of tree b with its tag and its element,
\* and b has at most the node of the key more.
RoundTrip(a, b) ==
    /\ \A s \in DOMAIN a.nodes : \E r \in DOMAIN b.nodes :
          /\ b.nodes[r].tag = a.nodes[s].tag
          /\ b.nodes[r].data = a.nodes[s].data
    /\ Cardinality(DOMAIN b.nodes) <= Cardinality(DOMAIN a.nodes) + 1

\* C8: set_item(K, v) of a Container v that holds nodes (and is not the
\* target itself), K absent with a present parent, then get_item(K): both
\* succeed and the Container returned has the tags, shape and elements that
\* v's store had.
C8_AbsorbThenFlatten ==
    [][(SetThenGet /\ last.fresh /\ last.value # Unsupported
        /\ last.value # last.target
        /\ IsGroup(last.snap) /\ last.snap.tree.order # <<>>)
        => /\ last.err = "ok"
           /\ last'.err = "ok"
           /\ last'.ret.kind = "obj"
           /\ RoundTrip(last.snap.tree, heap'[last'.ret.obj].tree)]_vars

\* C9: File(path, 'w') on a path that exists fails with "already exists" and
\* leaves the directories and files as they were.
C9_CreateOnExistingFails ==
    [][(last'.op = "open" /\ last'.mode = "w" /\ Exists(disk, RootPath))
        => /\ last'.err = "ValueError:already exists"
           /\ disk' = disk]_vars

\* A create-mode open was refused on a path that holds a data dir.
C9_Witness ==
    /\ last.op = "open"
    /\ last.mode = "w"
    /\ last.err = "ValueError:already exists"
    /\ Exists(disk, RootPath)
    /\ disk[RootPath].desc = FILE

\* C10: set_item of a DataSet under a linked container writes in the order
\* directory, descriptor, attribute map, payload, so that in the mirrored
\* directory the payload implies the attribute map, and that the descriptor.
C10_WriteOrder ==
    SetDataSetLinked
        => /\ IsPrefix(last.log, <<"mkdir", "ddir.json", "attributes.json", "to_parquet">>)
           /\ LET d == PathJoin(heap[last.target].path[1], last.key)
              IN Exists(disk, d) =>
                    /\ (disk[d].data # NoFile => disk[d].attrs # None)
                    /\ (disk[d].attrs # None => disk[d].desc # NoFile)

\* The key K splits at its last '/' into a parent that is a node of the
\* tree (the root for a key without '/') whose element carries an attribute
\* map with the leaf name as a key.
ParentOf(tree, K) ==
    IF \A i \in 1..Len(K) : K[i] # Slash THEN tree.root ELSE Some(RSplit(K)[1])

LeafOf(K) == RSplit(K)[Len(RSplit(K))]

ParentHasAttr(h, tree, K) ==
    /\ ParentOf(tree, K) # None
    /\ Contains(tree, ParentOf(tree, K)[1])
    /\ tree.nodes[ParentOf(tree, K)[1]].data # 0
    /\ h[tree.nodes[ParentOf(tree, K)[1]].data].kind \in {FILE, GROUP, DATASET}
    /\ LeafOf(K) \in DOMAIN h[tree.nodes[ParentOf(tree, K)[1]].data].attrs

AttrOfParent(h, tree, K) ==
    h[tree.nodes[ParentOf(tree, K)[1]].data].attrs[LeafOf(K)]

\* C11: get_item(K) of a node K is answered from the node, never from an
\* attribute and never with "not a valid key", whatever the attribute map
\* of the parent holds, and returns the node's element when it returns; of
\* a K that is no node it returns the attribute LeafOf(K) of the parent
\* node when that has one, and otherwise fails with "not a valid key";
\* in both of the latter cases nothing changes.
C11_NodeBeforeAttribute ==
    [][last'.op = "get"
        => LET tree == heap[last'.target].tree
               K == last'.key
           IN /\ Contains(tree, K)
                    => /\ last'.ret.kind # "attr"
                       /\ last'.err # "KeyError:not a valid key"
                       /\ (last'.err = "ok" => last'.ret = ObjRet(last'.elem))
                       /\ (IsDataSet(heap[last'.elem]) /\ heap[last'.elem].df # EmptyDf
                             => last'.err = "ok")
              /\ (~Contains(tree, K) /\ ParentHasAttr(heap, tree, K))
                    => /\ last'.err = "ok"
                       /\ last'.ret = AttrRet(AttrOfParent(heap, tree, K))
                       /\ heap' = heap
                       /\ disk' = disk
              /\ (~Contains(tree, K) /\ ~ParentHasAttr(heap, tree, K))
                    => /\ last'.err = "KeyError:not a valid key"
                       /\ last'.ret = NoRet
                       /\ heap' = heap
                       /\ disk' = disk]_vars

\* A lookup of a node whose parent node has an attribute of the node's leaf
\* name returned the node's element.
C11_Witness ==
    /\ last.op = "get"
    /\ last.err = "ok"
    /\ last.elem # 0
    /\ last.ret = ObjRet(last.elem)
    /\ Contains(heap[last.target].tree, last.key)
    /\ ParentHasAttr(heap, heap[last.target].tree, last.key)

\* A lookup of a key that is no node returned an attribute of the parent.
C11_AttributeReturned ==
    /\ last.op = "get"
    /\ last.err = "ok"
    /\ last.ret.kind = "attr"

\* A lookup failed with "not a valid key".
C11_NotFoundRaised ==
    /\ last.op = "get"
    /\ last.err = "KeyError:not a valid key"

\* The call is an assignment to a key that is a node of the container.
SetOfPresentKey(call, h) ==
    /\ call.op = "set"
    /\ Contains(h[call.target].tree, call.key)

\* C12 as claimed: set_item(K, v) on any container whose store holds K fails
\* with "already exists", whatever v is, and changes neither store nor disk.
C12_PresentKeyAlreadyExists ==
    [][SetOfPresentKey(last', heap)
        => /\ last'.err = "KeyError:already exists"
           /\ heap' = heap
           /\ disk' = disk]_vars

\* C12 as amended: set_item(K, v) on a container whose store holds K fails
\* for every v, before any disk operation and leaving store and disk as they
\* were: with the read-only error on a root opened in read mode, and with
\* "already exists" on every other container.
C12_PresentKeyRejected ==
    [][SetOfPresentKey(last', heap)
        => /\ last'.err = IF SetOnReadRoot(last', heap) THEN "ValueError:read only"
                          ELSE "KeyError:already exists"
           /\ last'.log = <<>>
           /\ heap' = heap
           /\ disk' = disk]_vars

\* A value of unsupported type was assigned to a present key of a linked
\* container and refused with "already exists".
C12_Witness ==
    /\ SetOfPresentKey(last, heap)
    /\ last.value = Unsupported
    /\ heap[last.target].path # None
    /\ last.err = "KeyError:already exists"

\* The call assigned a Raw to an absent key with a present parent, and
\* returned.
SetRawReturned(call) ==
    /\ call.op = "set"
    /\ call.fresh
    /\ call.value # Unsupported
    /\ call.snap.kind = RAW
    /\ call.err = "ok"

\* C13: after set_item(K, Raw), K absent with a present parent, K is a node
\* with the leaf name as tag, the resolved parent and the Raw as element, and
\* the disk is as it was; a following set_item on the same K of the same
\* container fails with "already exists".
C13_RawNodeCreated ==
    [][/\ SetRawReturned(last')
            => /\ Contains(heap'[last'.target].tree, last'.key)
               /\ heap'[last'.target].tree.nodes[last'.key] =
                     TreeNode(ResolveLeaf(last'.key),
                              ResolveParent(heap[last'.target].tree, last'.key),
                              last'.value)
               /\ disk' = disk
       /\ (SetRawReturned(last) /\ last'.op = "set"
            /\ last'.target = last.target /\ last'.key = last.key)
            => last'.err = "KeyError:already exists"]_vars

\* The Containers and roots constructed so far.
Containers == {o \in 1..Len(heap) : IsGroup(heap[o])}

\* C14: in every state every container's store has a root node, carrying
\* the same fixed identifier in all of them; a returned set_item of a key
\* without '/' has made the key a child of that root, never the root.
C14_RootAtConstruction ==
    /\ \A o \in Containers : heap[o].tree.root # None
    /\ \A o1, o2 \in Containers : heap[o1].tree.root = heap[o2].tree.root
    /\ (last.op = "set" /\ last.err = "ok" /\ Len(RSplit(last.key)) = 1
        /\ Contains(heap[last.target].tree, last.key))
        => /\ heap[last.target].tree.root # Some(last.key)
           /\ heap[last.target].tree.nodes[last.key].pred = heap[last.target].tree.root

\* Every node of the tree but its root has a parent that is a node of it.
ParentsPresent(tree) ==
    \A id \in DOMAIN tree.nodes :
        \/ tree.root = Some(id) /\ tree.nodes[id].pred = None
        \/ /\ tree.nodes[id].pred # None
           /\ Contains(tree, tree.nodes[id].pred[1])

\* The call assigns to a key with a '/' whose part before the last '/' is
\* no node of the container.
SetUnderAbsentParent(call, h) ==
    /\ call.op = "set"
    /\ Len(RSplit(call.key)) = 2
    /\ ~Contains(h[call.target].tree, RSplit(call.key)[1])

\* The call assigns a Container that holds nodes, and is not the target, to
\* an absent key with a present parent of a container that accepts
\* assignments.
AbsorbOfNodes(call, h) ==
    /\ call.op = "set"
    /\ call.fresh
    /\ call.value # Unsupported
    /\ call.value # call.target
    /\ IsGroup(call.snap)
    /\ call.snap.tree.order # <<>>
    /\ ~SetOnReadRoot(call, h)

\* C15: in every store each node but the root has a present parent; a
\* set_item under an absent parent fails and leaves heap and disk as they
\* were; absorbing a Container gives each of its nodes an identifier of its
\* own in the destination, none of them one the destination had: the
\* destination grows by the key and one identifier per source node.
C15_ParentsPresentAndAbsorb ==
    [][/\ \A o \in Containers : ParentsPresent(heap[o].tree)
       /\ SetUnderAbsentParent(last', heap)
            => /\ last'.err # "ok"
               /\ heap' = heap
               /\ disk' = disk
       /\ AbsorbOfNodes(last', heap)
            => /\ DOMAIN heap[last'.target].tree.nodes
                    \subseteq DOMAIN heap'[last'.target].tree.nodes
               /\ Cardinality(DOMAIN heap'[last'.target].tree.nodes)
                    = Cardinality(DOMAIN heap[last'.target].tree.nodes) + 1
                        + Cardinality(DOMAIN last'.snap.tree.nodes)]_vars

\* The latest call is an open in read or append mode that returned a root.
OpenedExisting ==
    /\ last.op = "open"
    /\ last.mode \in {"r", "a"}
    /\ last.err = "ok"

\* C16: after a successful open in read or append mode the root's store has
\* exactly one node per directory under the root path that holds a
\* descriptor: the node's identifier is the directory's path relative to
\* the root, its parent the node of the enclosing directory, its element of
\* the variant the descriptor declares; every Container element is linked to
\* the root path, every DataSet element is unloaded (its payload is empty),
\* and nothing was read.
C16_ScanRebuildsStore ==
    OpenedExisting
        => LET tree == heap[last.ret.obj].tree
               ids == DOMAIN tree.nodes
               dirs == GlobDescriptors(disk, RootPath)
           IN /\ {PathJoin(RootPath, id) : id \in ids} = dirs
              /\ Cardinality(ids) = Cardinality(dirs)
              /\ last.log = <<>>
              /\ \A id \in ids :
                    LET d == PathJoin(RootPath, id)
                        n == tree.nodes[id]
                    IN /\ id = JoinParts(RelativeTo(d, RootPath))
                       /\ (d = RootPath => n.pred = None /\ tree.root = Some(id))
                       /\ (d # RootPath =>
                             /\ n.pred # None
                             /\ n.pred[1] \in ids
                             /\ PathJoin(RootPath, n.pred[1]) = PathParent(d))
                       /\ n.data # 0
                       /\ heap[n.data].kind = disk[d].desc
                       /\ (IsGroup(heap[n.data]) => heap[n.data].path = Some(RootPath))
                       /\ (IsDataSet(heap[n.data]) => heap[n.data].df = EmptyDf)

\* The call looks up a node whose element is a DataSet with an empty,
\* not yet loaded, payload.
GetOfUnloaded(call, h) ==
    /\ call.op = "get"
    /\ call.elem # 0
    /\ IsDataSet(h[call.elem])
    /\ h[call.elem].df = EmptyDf

\* C17: get_item of an unloaded DataSet node fails with the not-linked error
\* on a container without a path, with no disk operation and heap and disk
\* left as they were; on a container with a path it does not fail with the
\* not-linked error.
C17_UnlinkedLoadRefused ==
    [][GetOfUnloaded(last', heap)
        => IF heap[last'.target].path = None
           THEN /\ last'.err = "GroupError:not linked"
                /\ last'.log = <<>>
                /\ heap' = heap
                /\ disk' = disk
           ELSE last'.err # "GroupError:not linked"]_vars

\* An unloaded DataSet was looked up in a container without a path and
\* refused.
C17_Witness ==
    /\ GetOfUnloaded(last, heap)
    /\ heap[last.target].path = None
    /\ last.err = "GroupError:not linked"

\* An unloaded DataSet was looked up in a container with a path.
C17_LinkedLookup ==
    /\ last.op = "get"
    /\ last.elem # 0
    /\ IsDataSet(heap[last.elem])
    /\ heap[last.target].path # None
    /\ last.log = <<"read_parquet">>

\* The call is a lookup or an assignment on a root opened in read mode, or on
\* a Container that is an element of such a root's store (which the caller
\* can only hold by lookups that start at the root).
OnReadOnlyTree(call, h) ==
    /\ call.op \in {"get", "set"}
    /\ \E f \in 1..Len(h) :
          /\ h[f].kind = FILE
          /\ h[f].mode = "r"
          /\ \/ call.target = f
             \/ \E id \in DOMAIN h[f].tree.nodes : h[f].tree.nodes[id].data = call.target

\* C18: no get_item and no set_item on a root opened in read mode, or on a
\* Container handed out from it, changes a directory or file.
C18_ReadOnlyCoversNested ==
    [][OnReadOnlyTree(last', heap) => disk' = disk]_vars

\* The latest call read a Container out of a root at key g, and the call
\* that follows looks up, in that Container, the key k for which g/k is an
\* unloaded DataSet node of the root.
ViaContainer ==
    /\ last.op = "get"
    /\ last.err = "ok"
    /\ last.ret.kind = "obj"
    /\ heap[last.target].kind = FILE
    /\ last.ret.obj # last.target
    /\ IsGroup(heap[last.ret.obj])
    /\ last'.op = "get"
    /\ last'.target = last.ret.obj
    /\ Contains(heap[last.target].tree, last.key \o <<Slash>> \o last'.key)
    /\ GetOfUnloaded([op |-> "get",
                      elem |-> heap[last.target].tree.nodes[
                                  last.key \o <<Slash>> \o last'.key].data], heap)

\* C19: the lookup of a DataSet by its relative key in a Container read out
\* of a linked root does what the lookup of g/ds on the root does: it
\* succeeds, returns the DataSet element of the root's node g/ds, and loads
\* its payload from the payload file of the directory R/g/ds.
C19_RouteIndependent ==
    [][ViaContainer
        => LET id == last.key \o <<Slash>> \o last'.key
               ds == heap[last.target].tree.nodes[id].data
               direct == GroupGetItem(heap, disk, last.target, id)
           IN /\ last'.err = "ok"
              /\ last'.ret = ObjRet(ds)
              /\ last'.ret = direct.ret
              /\ last'.log = <<"read_parquet">>
              /\ heap'[ds].df = disk[PathJoin(heap[last.target].path[1], id)].data]_vars

====
